---- MODULE Spec2Model ----
(***************************************************************************)
(* Verification model of two telescope drivers of the repository:          *)
(*                                                                         *)
(*   - AltAzMountSimulator (src/drivers/telescope/AltAzMountSimulator.cpp) *)
(*     the simulated mount: Goto / Abort / MoveNS / MoveWE / goto-mode     *)
(*     switch / ReadScopeStatus / TimerHit;                                *)
(*   - LX200_10MICRON (src/libindi/drivers/telescope/lx200_10micron.cpp)   *)
(*     the hardware mount: ReadScopeStatus (status poll), Park, UnPark,    *)
(*     the refraction and sync-configuration commands, and the text of     *)
(*     the refraction commands and of their replies.                       *)
(*                                                                         *)
(* Both classes derive from INDI::Telescope, whose fields TrackState and   *)
(* EqN (the coordinates last handed to NewRaDec) they share.  The          *)
(* specifications are SimSpec and SimLiveSpec (the simulator), SimLocSpec  *)
(* (its status report under every configured longitude), HwSpec (the       *)
(* hardware poll, Park, UnPark, Abort and the transport), HwCfgSpec (the   *)
(* poll and every command, configuration included) and CodecSpec (the      *)
(* refraction commands as text).                                           *)
(*                                                                         *)
(* Numbers.  The simulator computes in double; the model computes in exact *)
(* fixed point: every coordinate (hours of RA, degrees of Dec) and every   *)
(* angle is stored multiplied by Scale, and elapsed time is a whole number *)
(* of seconds.  The formulas of TimerHit are kept literally, including the *)
(* "* 15." and "/ 15." of the right-ascension axis.                        *)
(***************************************************************************)
EXTENDS Integers, Sequences, FiniteSets, TLC

VARIABLES
    \* ---- INDI::Telescope state shared by both drivers
    TrackState,      \* motion state
    EqN,             \* <<ra, dec>> last passed to NewRaDec
    IsParked,        \* the parked flag (SetParked / isParked)
    \* ---- AltAzMountSimulator
    currentRA, currentDEC, targetRA, targetDEC,
    ltvSet,          \* TimerHit's static ltv is non-zero
    Slewing, Tracking,   \* TimerHit's static log flags
    GotoMode,        \* the switch of GotoModeSP that is on
    HorizontalCoords,\* inputs the horizontal pair was last derived from
    LocationLng,     \* configured longitude, LocationN[LOCATION_LONGITUDE]
    \* ---- LX200_10MICRON
    connected,       \* isConnected()
    OldGstat,        \* remembered previous status code
    rx,              \* bytes received and not yet read, as a sequence of replies
    inflight,        \* replies the mount has sent that have not arrived yet
                     \* (each reply is "fresh", "stale" or "preabort")
    \* ---- observation of the last operation
    op,              \* name of the last operation
    ret,             \* what it returned
    reportMade,      \* it called NewRaDec
    pollInput,       \* what the last status poll met on the transport
    parsedStale,     \* the last status poll parsed the reply to an earlier request
    dtLast,          \* elapsed time of the tick just taken, 0 after any other step
    abortedSlew,     \* Abort was issued during a slew and no Goto since
    commanded,       \* <<ra, dec>> the last Goto was called with
    unparkedNoPark,  \* UnPark cleared the parked flag and no Park was written since
    parsedPreAbort,  \* the last poll parsed a reply sent before an Abort
    exchange,        \* writes and reads the last poll made on the transport
    pollReply,       \* the fields of the well-formed, known-status reply it read
    recovered,       \* the last poll succeeded right after a poll that failed
    request,         \* the property and value of the last ISNewNumber
    RefractionModelTemperatureNP, \* stored value (tenths) and property state
    RefractionModelPressureNP,    \* stored value (tenths) and property state
    \* ---- command formatting and reply parsing
    codec,           \* the last value formatted, the command text, the value parsed back
    gotos            \* number of Goto commands issued

simVars  == <<currentRA, currentDEC, targetRA, targetDEC, ltvSet, Slewing,
              Tracking, GotoMode, HorizontalCoords, LocationLng, dtLast,
              abortedSlew, commanded, gotos>>
hwVars   == <<connected, OldGstat, rx, inflight, pollInput, parsedStale,
              unparkedNoPark, parsedPreAbort, exchange, pollReply, recovered,
              request,
              RefractionModelTemperatureNP, RefractionModelPressureNP>>
baseVars == <<TrackState, EqN, IsParked>>
obsVars  == <<op, ret, reportMade>>
fmtVars  == <<codec>>
vars     == <<baseVars, simVars, hwVars, obsVars, fmtVars>>

----------------------------------------------------------------------------
(* Bounds and program constants                                            *)

Scale == 15                  \* fixed-point factor of every coordinate
SLEW_RATE == 3               \* degrees per second
MaxDt == 2                   \* longest elapsed time between two ticks, seconds
MaxGotos == 2                \* Goto commands per behaviour of SimLiveSpec
MaxInflight == 1             \* replies sent by the mount and not yet arrived

\* Goto targets offered by the client: 0h, 7/15 h, 2h and 90, 86, 75 degrees.
TargetRAs  == {0 * Scale, 7, 2 * Scale}
TargetDECs == {90 * Scale, 86 * Scale, 75 * Scale}

Abs(x) == IF x < 0 THEN -x ELSE x

\* TelescopeStatus of INDI::Telescope
SCOPE_IDLE     == "Idle"
SCOPE_SLEWING  == "Slewing"
SCOPE_TRACKING == "Tracking"
SCOPE_PARKING  == "Parking"
SCOPE_PARKED   == "Parked"

\* Motion State after construction: Idle, or Parked when the persisted park
\* state says so.
InitTrackStates == {SCOPE_IDLE, SCOPE_PARKED}

\* Observer longitude in degrees, as configured (LocationN[LOCATION_LONGITUDE]).
Longitude == 200

\* Longitudes the location can be configured to, east-positive in 0..360 or
\* signed in (-180, 180].
Longitudes == {-179, -160, 0, 10, 180, 181, 200, 360}

----------------------------------------------------------------------------
(* INDI::Telescope helpers used by both drivers                            *)

\* NewRaDec(ra, dec): publish the equatorial pair.
NewRaDec(ra, dec) == <<ra, dec>>

----------------------------------------------------------------------------
(* AltAzMountSimulator                                                     *)

\* The argument list as it would be if 180 itself were also brought down.
HrzInputsFrom180(ra, dec, lng) ==
    [ra  |-> ra * 15,
     dec |-> dec,
     lng |-> IF lng >= 180 THEN lng - 360 ELSE lng]

\* The argument list handed to ln_get_hrz_from_equ by ReadScopeStatus: RA in
\* degrees (hours * 15), Dec, and the longitude brought below 180.
HrzInputs(ra, dec, lng) ==
    [ra  |-> ra * 15,
     dec |-> dec,
     lng |-> IF lng > 180 THEN lng - 360 ELSE lng]

\* AltAzMountSimulator::ReadScopeStatus: report current, derive horizontal.
SimReport ==
    /\ EqN' = NewRaDec(currentRA, currentDEC)
    /\ HorizontalCoords' = HrzInputs(currentRA, currentDEC, LocationLng)
    /\ reportMade' = TRUE

\* Goto as it would be if it also moved the mount at once.
GotoTeleports(ra, dec) ==
    /\ targetRA'  = ra
    /\ targetDEC' = dec
    /\ TrackState' = SCOPE_SLEWING
    /\ ret' = TRUE
    /\ currentRA'  = ra
    /\ currentDEC' = dec

\* Goto as it would be if it left a mount that is tracking in Tracking.
GotoKeepsTracking(ra, dec) ==
    /\ targetRA'  = ra
    /\ targetDEC' = dec
    /\ TrackState' = IF TrackState = SCOPE_TRACKING THEN SCOPE_TRACKING
                     ELSE SCOPE_SLEWING
    /\ ret' = TRUE
    /\ UNCHANGED <<currentRA, currentDEC>>

\* Goto as it would be if a slew under way kept its target.
GotoKeepsTargetWhileSlewing(ra, dec) ==
    /\ targetRA'  = IF TrackState = SCOPE_SLEWING THEN targetRA ELSE ra
    /\ targetDEC' = IF TrackState = SCOPE_SLEWING THEN targetDEC ELSE dec
    /\ TrackState' = SCOPE_SLEWING
    /\ ret' = TRUE
    /\ UNCHANGED <<currentRA, currentDEC>>

\* AltAzMountSimulator::Goto(ra, dec)
Goto(ra, dec) ==
    /\ targetRA'  = ra
    /\ targetDEC' = dec
    /\ TrackState' = SCOPE_SLEWING
    /\ ret' = TRUE
    /\ UNCHANGED <<currentRA, currentDEC>>

SimGoto ==
    /\ gotos < MaxGotos
    /\ gotos' = gotos + 1
    /\ \E ra \in TargetRAs, dec \in TargetDECs :
          /\ Goto(ra, dec)
          /\ commanded' = <<ra, dec>>
    /\ op' = "Goto"
    /\ dtLast' = 0
    /\ abortedSlew' = FALSE
    /\ reportMade' = FALSE
    /\ UNCHANGED <<EqN, IsParked, ltvSet, Slewing, Tracking, GotoMode,
                   HorizontalCoords, LocationLng, hwVars, fmtVars>>

\* AltAzMountSimulator::Abort
Abort ==
    /\ ret' = TRUE
    /\ UNCHANGED <<TrackState, currentRA, currentDEC, targetRA, targetDEC>>

SimAbort ==
    /\ Abort
    /\ op' = "Abort"
    /\ dtLast' = 0
    /\ abortedSlew' = (abortedSlew \/ TrackState = SCOPE_SLEWING)
    /\ reportMade' = FALSE
    /\ UNCHANGED <<EqN, IsParked, ltvSet, Slewing, Tracking, GotoMode,
                   HorizontalCoords, LocationLng, commanded, gotos, hwVars,
                   fmtVars>>

\* The jog handlers as they would be without the parked test.
MoveAxisUnchecked ==
    /\ ret' = TRUE
    /\ UNCHANGED <<TrackState, currentRA, currentDEC, targetRA, targetDEC>>

\* AltAzMountSimulator::MoveNS and MoveWE have the same body.
MoveAxis ==
    /\ ret' = (TrackState # SCOPE_PARKED)
    /\ UNCHANGED <<TrackState, currentRA, currentDEC, targetRA, targetDEC>>

SimMoveNS ==
    /\ MoveAxis
    /\ op' = "MoveNS"
    /\ dtLast' = 0
    /\ reportMade' = FALSE
    /\ UNCHANGED <<EqN, IsParked, ltvSet, Slewing, Tracking, GotoMode,
                   HorizontalCoords, LocationLng, abortedSlew, commanded, gotos,
                   hwVars, fmtVars>>

SimMoveWE ==
    /\ MoveAxis
    /\ op' = "MoveWE"
    /\ dtLast' = 0
    /\ reportMade' = FALSE
    /\ UNCHANGED <<EqN, IsParked, ltvSet, Slewing, Tracking, GotoMode,
                   HorizontalCoords, LocationLng, abortedSlew, commanded, gotos,
                   hwVars, fmtVars>>

\* AltAzMountSimulator::SetAltAzMode(enable), reached from ISNewSwitch.
SetAltAzMode(enable) ==
    /\ GotoMode' = IF enable THEN "ALTAZ" ELSE "RADEC"
    /\ ret' = TRUE

SimSetAltAzMode ==
    /\ \E enable \in BOOLEAN : SetAltAzMode(enable)
    /\ op' = "SetAltAzMode"
    /\ dtLast' = 0
    /\ reportMade' = FALSE
    /\ UNCHANGED <<baseVars, currentRA, currentDEC, targetRA, targetDEC,
                   ltvSet, Slewing, Tracking, HorizontalCoords, LocationLng,
                   abortedSlew, commanded, gotos, hwVars, fmtVars>>

\* AltAzMountSimulator::ReadScopeStatus called on its own.
SimReadScopeStatus ==
    /\ SimReport
    /\ ret' = TRUE
    /\ op' = "ReadScopeStatus"
    /\ dtLast' = 0
    /\ UNCHANGED <<TrackState, IsParked, currentRA, currentDEC, targetRA,
                   targetDEC, ltvSet, Slewing, Tracking, GotoMode, LocationLng,
                   abortedSlew, commanded, gotos, hwVars, fmtVars>>

\* One axis of the SCOPE_SLEWING branch of TimerHit.  cur and tgt are the
\* axis' current and target value, da the angle moved since the last tick,
\* k the factor between the axis' unit and degrees (15 for RA, 1 for Dec).
\* All three of cur, tgt and da are stored times Scale.
\* The lock test as it would be with half the tolerance.
AxisLockedNarrow(cur, tgt, da, k) == Abs(tgt - cur) * k * 2 <= da

\* The lock test as it would be with a strict comparison.
AxisLockedStrict(cur, tgt, da, k) == Abs(tgt - cur) * k < da

AxisLocked(cur, tgt, da, k) == Abs(tgt - cur) * k <= da

\* The step as it would be without the division by the axis' factor.
AxisStepUnscaled(cur, tgt, da, k) ==
    IF AxisLocked(cur, tgt, da, k) THEN tgt
    ELSE IF tgt - cur > 0 THEN cur + da
    ELSE cur - da

AxisStep(cur, tgt, da, k) ==
    IF AxisLocked(cur, tgt, da, k) THEN tgt
    ELSE IF tgt - cur > 0 THEN cur + da \div k
    ELSE cur - da \div k

\* The end-of-slew test as it would be if one locked axis were enough.
SlewCompleteOnEitherAxis(nlocked) == nlocked >= 1

\* if (nlocked == 2) of the SCOPE_SLEWING branch.
SlewComplete(nlocked) == nlocked = 2

\* AltAzMountSimulator::TimerHit with elapsed time dt.
TimerHit(dt) ==
    LET da_ra  == SLEW_RATE * dt * Scale
        da_dec == SLEW_RATE * dt * Scale
        nlocked == (IF AxisLocked(currentRA, targetRA, da_ra, 15) THEN 1 ELSE 0)
                 + (IF AxisLocked(currentDEC, targetDEC, da_dec, 1) THEN 1 ELSE 0)
    IN  /\ ltvSet' = TRUE
        /\ dtLast' = dt
        \* INDI::Telescope::TimerHit: the status report comes first
        /\ SimReport
        /\ IF TrackState = SCOPE_SLEWING
           THEN /\ currentRA'  = AxisStep(currentRA, targetRA, da_ra, 15)
                /\ currentDEC' = AxisStep(currentDEC, targetDEC, da_dec, 1)
                /\ TrackState' = IF SlewComplete(nlocked) THEN SCOPE_TRACKING
                                 ELSE TrackState
                /\ Tracking' = FALSE
                /\ Slewing'  = TRUE
           ELSE IF TrackState = SCOPE_TRACKING
           THEN /\ Tracking' = TRUE
                /\ Slewing'  = FALSE
                /\ UNCHANGED <<currentRA, currentDEC, TrackState>>
           ELSE /\ Tracking' = FALSE
                /\ Slewing'  = FALSE
                /\ UNCHANGED <<currentRA, currentDEC, TrackState>>
        /\ UNCHANGED <<targetRA, targetDEC>>

\* The first tick finds ltv zero and computes dt = 0; later ticks see the
\* wall-clock time since the previous one.
SimTimerHit ==
    /\ \E dt \in 0 .. MaxDt :
          /\ (dt = 0) <=> ~ltvSet
          /\ TimerHit(dt)
    /\ op' = "TimerHit"
    /\ ret' = TRUE
    /\ UNCHANGED <<IsParked, GotoMode, LocationLng, abortedSlew, commanded, gotos, hwVars, fmtVars>>

\* The configuration collaborator sets the observer's longitude.
SimUpdateLocation ==
    /\ \E lng \in Longitudes : LocationLng' = lng
    /\ op' = "updateLocation"
    /\ ret' = TRUE
    /\ reportMade' = FALSE
    /\ dtLast' = 0
    /\ UNCHANGED <<baseVars, currentRA, currentDEC, targetRA, targetDEC,
                   ltvSet, Slewing, Tracking, GotoMode, HorizontalCoords,
                   abortedSlew, commanded, gotos, hwVars, fmtVars>>

----------------------------------------------------------------------------
(* LX200_10MICRON: the hardware path (isSimulation() is false)             *)

\* Status codes of the mount (enum LX200_10MICRON_GSTAT), by name.  "OTHER"
\* is any number the switch of ReadScopeStatus has no case for; "UNSET" is
\* the -1 that Gstat and OldGstat start from.
KnownGstat ==
    {"GSTAT_TRACKING", "GSTAT_STOPPED", "GSTAT_PARKING", "GSTAT_UNPARKING",
     "GSTAT_SLEWING_TO_HOME", "GSTAT_PARKED", "GSTAT_SLEWING_OR_STOPPING",
     "GSTAT_NOT_TRACKING_AND_NOT_MOVING", "GSTAT_MOTORS_TOO_COLD",
     "GSTAT_TRACKING_OUTSIDE_LIMITS", "GSTAT_FOLLOWING_SATELLITE",
     "GSTAT_NEED_USEROK", "GSTAT_UNKNOWN_STATUS", "GSTAT_ERROR"}

WireGstat == KnownGstat \cup {"OTHER"}

\* Values a client sets the refraction properties to, in tenths.
RequestedTemperatures == {-105}
RequestedPressures == {10132}

\* A status reply as text: how many comma-separated fields it has (9 stands
\* for any number above 8), the index of its first field that does not
\* scan (0 when all do), and the values of the fields the driver uses.
\* Every status code comes with the first right ascension, the codes of a
\* mount in motion with the second as well.
ReplyRAs  == {1, 2}
ReplyDECs == {10}
ReplyShapes == {<<8, 0>>, <<0, 0>>, <<6, 0>>, <<7, 0>>, <<9, 0>>,
                <<8, 2>>, <<8, 3>>, <<8, 7>>, <<8, 8>>}

ReplyTexts ==
    {[nfields |-> 8, bad |-> 0, ra |-> 1, dec |-> dec, gstat |-> g] :
        dec \in ReplyDECs, g \in WireGstat}
    \cup
    {[nfields |-> 8, bad |-> 0, ra |-> ra, dec |-> dec, gstat |-> g] :
        ra \in ReplyRAs, dec \in ReplyDECs,
        g \in {"GSTAT_TRACKING", "GSTAT_SLEWING_OR_STOPPING"}}
    \cup
    {[nfields |-> sh[1], bad |-> sh[2], ra |-> 1, dec |-> 10, gstat |-> g] :
        sh \in ReplyShapes \ {<<8, 0>>}, g \in {"GSTAT_PARKED"}}

\* What the uninitialized buffer data may hold when nothing was read into it.
BufferGarbage ==
    {[nfields |-> sh[1], bad |-> 0, ra |-> 2, dec |-> 10, gstat |-> g] :
        sh \in {<<8, 0>>, <<0, 0>>}, g \in {"GSTAT_SLEWING_OR_STOPPING"}}

\* The buffer of a poll that returns before its read.
NothingRead == {[nfields |-> 0, bad |-> 0, ra |-> 0, dec |-> 0, gstat |-> "UNSET"]}

WellFormed(t) == t.nfields = 8 /\ t.bad = 0

\* Return value of sscanf(data, "%g,%g,%c,%g,%g,%g,%d,%d#", ...): the number
\* of conversions made before the text runs out of fields or fails to match.
\* The third conversion, %c, takes any character, so a bad third field stops
\* the scan after it.  data always holds at least the '#', so the scan never
\* meets the end of input before its first conversion and never returns EOF.
Sscanf(t) ==
    LET avail == IF t.nfields > 8 THEN 8 ELSE t.nfields
        stop  == IF t.bad = 0 THEN 8
                 ELSE IF t.bad = 3 THEN 3
                 ELSE t.bad - 1
    IN  IF stop < avail THEN stop ELSE avail

\* The locals of ReadScopeStatus after the scan: a field that was not
\* converted keeps its initializer.
ScannedRA(t)    == IF Sscanf(t) >= 1 THEN t.ra ELSE 0
ScannedDEC(t)   == IF Sscanf(t) >= 2 THEN t.dec ELSE 0
ScannedGstat(t) == IF Sscanf(t) >= 7 THEN t.gstat ELSE "UNSET"

\* The switch as it would be if its default branch fell back to Idle.
SwitchGstatDefaultIdle(g, prev) ==
    CASE g \in {"GSTAT_TRACKING", "GSTAT_UNPARKING",
                "GSTAT_TRACKING_OUTSIDE_LIMITS", "GSTAT_FOLLOWING_SATELLITE"}
           -> [known |-> TRUE, state |-> SCOPE_TRACKING]
      [] g = "GSTAT_PARKING"
           -> [known |-> TRUE, state |-> SCOPE_PARKING]
      [] g \in {"GSTAT_SLEWING_TO_HOME", "GSTAT_SLEWING_OR_STOPPING"}
           -> [known |-> TRUE, state |-> SCOPE_SLEWING]
      [] g = "GSTAT_PARKED"
           -> [known |-> TRUE, state |-> SCOPE_PARKED]
      [] OTHER
           -> [known |-> TRUE, state |-> SCOPE_IDLE]

\* The switch as it would be if the unparking code left the state alone.
SwitchGstatUnparkingKept(g, prev) ==
    CASE g \in {"GSTAT_TRACKING",
                "GSTAT_TRACKING_OUTSIDE_LIMITS", "GSTAT_FOLLOWING_SATELLITE"}
           -> [known |-> TRUE, state |-> SCOPE_TRACKING]
      [] g = "GSTAT_UNPARKING"
           -> [known |-> TRUE, state |-> prev]
      [] g \in {"GSTAT_STOPPED", "GSTAT_NOT_TRACKING_AND_NOT_MOVING",
                "GSTAT_MOTORS_TOO_COLD", "GSTAT_NEED_USEROK",
                "GSTAT_UNKNOWN_STATUS", "GSTAT_ERROR"}
           -> [known |-> TRUE, state |-> SCOPE_IDLE]
      [] g = "GSTAT_PARKING"
           -> [known |-> TRUE, state |-> SCOPE_PARKING]
      [] g \in {"GSTAT_SLEWING_TO_HOME", "GSTAT_SLEWING_OR_STOPPING"}
           -> [known |-> TRUE, state |-> SCOPE_SLEWING]
      [] g = "GSTAT_PARKED"
           -> [known |-> TRUE, state |-> SCOPE_PARKED]
      [] OTHER
           -> [known |-> FALSE, state |-> prev]

\* switch (Gstat) of ReadScopeStatus: whether a case matches, and the
\* TrackState it assigns (prev when none does).
SwitchGstat(g, prev) ==
    CASE g \in {"GSTAT_TRACKING", "GSTAT_UNPARKING",
                "GSTAT_TRACKING_OUTSIDE_LIMITS", "GSTAT_FOLLOWING_SATELLITE"}
           -> [known |-> TRUE, state |-> SCOPE_TRACKING]
      [] g \in {"GSTAT_STOPPED", "GSTAT_NOT_TRACKING_AND_NOT_MOVING",
                "GSTAT_MOTORS_TOO_COLD", "GSTAT_NEED_USEROK",
                "GSTAT_UNKNOWN_STATUS", "GSTAT_ERROR"}
           -> [known |-> TRUE, state |-> SCOPE_IDLE]
      [] g = "GSTAT_PARKING"
           -> [known |-> TRUE, state |-> SCOPE_PARKING]
      [] g \in {"GSTAT_SLEWING_TO_HOME", "GSTAT_SLEWING_OR_STOPPING"}
           -> [known |-> TRUE, state |-> SCOPE_SLEWING]
      [] g = "GSTAT_PARKED"
           -> [known |-> TRUE, state |-> SCOPE_PARKED]
      [] OTHER
           -> [known |-> FALSE, state |-> prev]

\* The test as it would be if only a failed write were detected.
TtyFailedWriteOnly(error_type) == error_type = "TTY_WRITE_ERROR"

\* The test the driver applies to the result of tty_write_string and of
\* tty_read_section.
TtyFailed(error_type) == error_type # "TTY_OK"

\* The test the driver applies to the result of sscanf.
ScanFailed(n) == n < 0

\* The poll as it would be if a successful one kept the coordinates
\* reported before and made no report.
ScopeStatusWithoutReport(conn, werr, rerr, term, t, prevState, prevParked, prevGstat, prevEq) ==
    LET kept == [ok |-> FALSE, state |-> prevState, parked |-> prevParked,
                 gstat |-> prevGstat, eq |-> prevEq, report |-> FALSE]
        sw   == SwitchGstat(ScannedGstat(t), prevState)
    IN  IF ~conn THEN kept
        ELSE IF TtyFailed(werr) THEN kept
        ELSE IF TtyFailed(rerr) THEN kept
        ELSE IF ~term THEN kept
        ELSE IF ScanFailed(Sscanf(t)) THEN kept
        ELSE IF ~sw.known THEN kept
        ELSE [ok     |-> TRUE,
              state  |-> sw.state,
              parked |-> IF ScannedGstat(t) = "GSTAT_PARKED" THEN TRUE
                         ELSE prevParked,
              gstat  |-> ScannedGstat(t),
              eq     |-> prevEq,
              report |-> FALSE]

\* What ReadScopeStatus decides and assigns, given the state before it
\* (prevState, prevParked, prevGstat, prevEq) and what the transport did:
\* the results of the write and of the read, whether data holds a '#', and
\* the text in data.
ScopeStatus(conn, werr, rerr, term, t, prevState, prevParked, prevGstat, prevEq) ==
    LET kept == [ok |-> FALSE, state |-> prevState, parked |-> prevParked,
                 gstat |-> prevGstat, eq |-> prevEq, report |-> FALSE]
        sw   == SwitchGstat(ScannedGstat(t), prevState)
    IN  IF ~conn THEN kept
        ELSE IF TtyFailed(werr) THEN kept
        ELSE IF TtyFailed(rerr) THEN kept
        ELSE IF ~term THEN kept
        ELSE IF ScanFailed(Sscanf(t)) THEN kept
        ELSE IF ~sw.known THEN kept
        ELSE [ok     |-> TRUE,
              state  |-> sw.state,
              parked |-> IF ScannedGstat(t) = "GSTAT_PARKED" THEN TRUE
                         ELSE prevParked,
              gstat  |-> ScannedGstat(t),
              eq     |-> NewRaDec(ScannedRA(t), ScannedDEC(t)),
              report |-> TRUE]

\* The transport traffic of one poll as it would be if the request were sent
\* and read once more after a read that failed.
ExchangeWithRetry(conn, werr, rerr) ==
    [writes |-> IF ~conn THEN 0
                ELSE IF ~TtyFailed(werr) /\ TtyFailed(rerr) THEN 2 ELSE 1,
     reads  |-> IF ~conn \/ TtyFailed(werr) THEN 0
                ELSE IF TtyFailed(rerr) THEN 2 ELSE 1]

\* The writes and reads ReadScopeStatus makes on the transport, given the
\* results of the write and of the read: nothing when not connected, one
\* tty_write_string, and one tty_read_section when the write succeeded.
Exchange(conn, werr, rerr) ==
    [writes |-> IF ~conn THEN 0 ELSE 1,
     reads  |-> IF ~conn \/ TtyFailed(werr) THEN 0 ELSE 1]

\* A command has been written: every reply still under way answers an
\* earlier request.  A reply is "fresh" while it answers the request last
\* written, "stale" once a later command was written, and "preabort" when
\* it was sent before an Abort.
MarkStale(q) ==
    [i \in 1 .. Len(q) |-> IF q[i] = "preabort" THEN "preabort" ELSE "stale"]

\* An Abort has been issued: every reply under way tells the state the
\* device had before it.
MarkPreAbort(q) == [i \in 1 .. Len(q) |-> "preabort"]

\* No well-formed reply with a known status code was read.
NoReply == [ra |-> 0, dec |-> 0, gstat |-> "UNSET"]

\* The last operation was not ISNewNumber.
NoRequest == [name |-> "none", value |-> 0]

\* What the poll met, from the transport's side.
PollInput(conn, werr, rerr, answered, t) ==
    IF ~conn THEN "not_connected"
    ELSE IF werr # "TTY_OK" THEN "write_error"
    ELSE IF rerr = "TTY_READ_ERROR" THEN "read_error"
    ELSE IF rerr = "TTY_TIME_OUT" THEN
        (IF answered = "unterminated" THEN "no_terminator" ELSE "timeout")
    ELSE IF ~WellFormed(t) THEN "malformed"
    ELSE IF t.gstat \notin KnownGstat THEN "unknown_status"
    ELSE "ok"

\* LX200_10MICRON::ReadScopeStatus.
\*   werr      result of tty_write_string
\*   answered  what the mount sends back to this request: nothing, a reply
\*             ending in '#', or a reply that lost its '#'
\*   k         how many of the replies under way arrive before the read ends
\*   ioerr     the read fails with TTY_READ_ERROR
\*   t         the text of the reply that is read; when the read fails, the
\*             content of the uninitialized buffer data
\*   gterm     whether data holds a '#' (it does after a successful read)
\* tty_read_section returns TTY_OK on reading the first '#'; a reply without
\* '#' is read up to its end and the read then times out.  tcflush then
\* drops whatever has arrived and was not read.
HwReadScopeStatus ==
    /\ op' = "ReadScopeStatus"
    /\ \E werr \in {"TTY_OK", "TTY_WRITE_ERROR"},
          answered \in {"none", "terminated", "unterminated"},
          ioerr \in BOOLEAN :
        LET written == connected /\ werr = "TTY_OK"
            rx1  == IF written THEN MarkStale(rx) ELSE rx
            fl1  == IF written THEN MarkStale(inflight) ELSE inflight
            fl2  == IF written /\ answered = "terminated"
                    THEN Append(fl1, "fresh") ELSE fl1
        IN  /\ Len(fl2) <= MaxInflight
            /\ written \/ (answered = "none" /\ ~ioerr)
            /\ connected \/ werr = "TTY_OK"
            /\ \E k \in 0 .. Len(fl2) :
                LET rx2  == rx1 \o SubSeq(fl2, 1, k)
                    rerr == IF ioerr THEN "TTY_READ_ERROR"
                            ELSE IF rx2 = <<>> THEN "TTY_TIME_OUT"
                            ELSE "TTY_OK"
                IN  /\ written \/ k = 0
                    /\ (answered = "unterminated") => (rx2 = <<>>)
                    /\ rx' = IF written THEN <<>> ELSE rx
                    /\ inflight' = IF written
                                   THEN SubSeq(fl2, k + 1, Len(fl2))
                                   ELSE inflight
                    /\ parsedStale' = (/\ written /\ rerr = "TTY_OK"
                                       /\ Head(rx2) # "fresh")
                    /\ parsedPreAbort' = (/\ written /\ rerr = "TTY_OK"
                                          /\ Head(rx2) = "preabort")
                    /\ exchange' = Exchange(connected, werr, rerr)
                    /\ \E t \in (IF ~written THEN NothingRead
                                 ELSE IF rerr = "TTY_OK" THEN ReplyTexts
                                 ELSE BufferGarbage),
                          gterm \in (IF written /\ rerr # "TTY_OK"
                                     THEN BOOLEAN ELSE {TRUE}) :
                        \E r \in {ScopeStatus(connected, werr, rerr, gterm, t,
                                     TrackState, IsParked, OldGstat, EqN)} :
                            /\ ret' = r.ok
                            /\ TrackState' = r.state
                            /\ IsParked' = r.parked
                            /\ OldGstat' = r.gstat
                            /\ EqN' = r.eq
                            /\ reportMade' = r.report
                            /\ \E met \in {PollInput(connected, werr, rerr,
                                                      answered, t)} :
                                  /\ pollInput' = met
                                  /\ pollReply' =
                                        IF met = "ok"
                                        THEN [ra |-> t.ra, dec |-> t.dec,
                                              gstat |-> t.gstat]
                                        ELSE NoReply
                            /\ recovered' = (/\ r.ok
                                             /\ op = "ReadScopeStatus"
                                             /\ ~ret)
    /\ request' = NoRequest
    /\ UNCHANGED <<connected, unparkedNoPark, RefractionModelTemperatureNP,
                   RefractionModelPressureNP, simVars, fmtVars>>

\* What an operation other than the poll leaves in the poll's observations.
NoPoll ==
    /\ pollInput' = "none"
    /\ parsedStale' = FALSE
    /\ parsedPreAbort' = FALSE
    /\ exchange' = [writes |-> 0, reads |-> 0]
    /\ pollReply' = NoReply
    /\ recovered' = FALSE
    /\ reportMade' = FALSE

\* LX200_10MICRON::setStandardProcedureWithoutRead: write, then tcflush.
\* A negative result is a tty error.
WithoutRead(werr) ==
    /\ ret' = ~TtyFailed(werr)
    /\ rx' = IF TtyFailed(werr) THEN rx ELSE <<>>
    /\ inflight' = IF TtyFailed(werr) THEN inflight ELSE MarkStale(inflight)

\* INDI::Telescope::SetParked(isparked)
SetParked(isparked) ==
    /\ IsParked' = isparked
    /\ TrackState' = IF isparked THEN SCOPE_PARKED ELSE SCOPE_IDLE

\* Park as it would be if it declared the mount parked itself.
ParkSetsParked(werr) ==
    /\ WithoutRead(werr)
    /\ IF TtyFailed(werr)
       THEN UNCHANGED <<TrackState, IsParked>>
       ELSE SetParked(TRUE)

\* LX200_10MICRON::Park
Park(werr) ==
    /\ WithoutRead(werr)
    /\ UNCHANGED <<TrackState, IsParked>>

HwPark ==
    /\ op' = "Park"
    /\ \E werr \in {"TTY_OK", "TTY_WRITE_ERROR"} :
          /\ Park(werr)
          /\ unparkedNoPark' = IF werr = "TTY_OK" THEN FALSE ELSE unparkedNoPark
    /\ NoPoll
    /\ request' = NoRequest
    /\ UNCHANGED <<EqN, connected, OldGstat, RefractionModelTemperatureNP,
                   RefractionModelPressureNP, simVars, fmtVars>>

\* LX200_10MICRON::UnPark
UnPark(werr) ==
    /\ WithoutRead(werr)
    /\ IF TtyFailed(werr)
       THEN UNCHANGED <<TrackState, IsParked>>
       ELSE SetParked(FALSE)

HwUnPark ==
    /\ op' = "UnPark"
    /\ \E werr \in {"TTY_OK", "TTY_WRITE_ERROR"} :
          /\ UnPark(werr)
          /\ unparkedNoPark' = IF werr = "TTY_OK" THEN TRUE ELSE unparkedNoPark
    /\ NoPoll
    /\ request' = NoRequest
    /\ UNCHANGED <<EqN, connected, OldGstat, RefractionModelTemperatureNP,
                   RefractionModelPressureNP, simVars, fmtVars>>

\* lx200driver's setStandardProcedure: the command is written, the
\* one-character acknowledgement is read and the receive buffer is flushed;
\* the result is 0 when the write succeeded and the mount acknowledged.
StandardProcedure(werr, ack) ==
    /\ ret' = (~TtyFailed(werr) /\ ack)
    /\ rx' = IF TtyFailed(werr) THEN rx ELSE <<>>
    /\ inflight' = IF TtyFailed(werr) THEN inflight ELSE MarkStale(inflight)

\* LX200_10MICRON::SetRefractionModelTemperature and
\* SetRefractionModelPressure: format the command, setStandardProcedure.
SetRefractionModel(werr, ack) == StandardProcedure(werr, ack)

\* ISNewNumber as it would be if the value were stored only once the
\* command had succeeded.
ISNewNumberStoresOnSuccess(name, value, werr, ack) ==
    /\ SetRefractionModel(werr, ack)
    /\ \E ok \in {~TtyFailed(werr) /\ ack} :
          IF name = "REFRACTION_MODEL_TEMPERATURE"
          THEN /\ RefractionModelTemperatureNP' =
                     [value |-> IF ok THEN value
                                ELSE RefractionModelTemperatureNP.value,
                      s |-> IF ok THEN "IPS_OK" ELSE "IPS_ALERT"]
               /\ UNCHANGED RefractionModelPressureNP
          ELSE /\ RefractionModelPressureNP' =
                     [value |-> IF ok THEN value
                                ELSE RefractionModelPressureNP.value,
                      s |-> IF ok THEN "IPS_OK" ELSE "IPS_ALERT"]
               /\ UNCHANGED RefractionModelTemperatureNP

\* LX200_10MICRON::ISNewNumber for the two refraction properties:
\* IUUpdateNumber stores the value, the command is sent, the property state
\* follows its result.
ISNewNumber(name, value, werr, ack) ==
    /\ SetRefractionModel(werr, ack)
    /\ \E np \in {[value |-> value,
                  s |-> IF ~TtyFailed(werr) /\ ack THEN "IPS_OK"
                        ELSE "IPS_ALERT"]} :
          IF name = "REFRACTION_MODEL_TEMPERATURE"
          THEN /\ RefractionModelTemperatureNP' = np
               /\ UNCHANGED RefractionModelPressureNP
          ELSE /\ RefractionModelPressureNP' = np
               /\ UNCHANGED RefractionModelTemperatureNP

HwISNewNumber ==
    /\ op' = "ISNewNumber"
    /\ \E name \in {"REFRACTION_MODEL_TEMPERATURE", "REFRACTION_MODEL_PRESSURE"},
          werr \in {"TTY_OK", "TTY_WRITE_ERROR"}, ack \in BOOLEAN :
          /\ TtyFailed(werr) => ack
          /\ \E value \in (IF name = "REFRACTION_MODEL_TEMPERATURE"
                           THEN RequestedTemperatures
                           ELSE RequestedPressures) :
                /\ ISNewNumber(name, value, werr, ack)
                /\ request' = [name |-> name, value |-> value]
    /\ NoPoll
    /\ UNCHANGED <<baseVars, connected, OldGstat, unparkedNoPark, simVars, fmtVars>>

\* lx200driver's setCommandInt: the receive buffer is flushed, the command
\* is written; a negative result is a tty error.
CommandInt(werr) ==
    /\ ret' = ~TtyFailed(werr)
    /\ rx' = <<>>
    /\ inflight' = IF TtyFailed(werr) THEN inflight ELSE MarkStale(inflight)

\* LX200_10MICRON::SyncConfigBehaviour
SyncConfigBehaviour(cmcfg, werr) ==
    /\ CommandInt(werr)
    /\ UNCHANGED <<TrackState, IsParked>>

HwSyncConfigBehaviour ==
    /\ op' = "SyncConfigBehaviour"
    /\ \E cmcfg \in BOOLEAN, werr \in {"TTY_OK", "TTY_WRITE_ERROR"} :
          SyncConfigBehaviour(cmcfg, werr)
    /\ NoPoll
    /\ request' = NoRequest
    /\ UNCHANGED <<EqN, connected, OldGstat, unparkedNoPark,
                   RefractionModelTemperatureNP, RefractionModelPressureNP,
                   simVars, fmtVars>>

\* Abort on the hardware path: in any state but Parked, Motion State is Idle
\* at once; nothing is waited for, so the replies under way stay under way.
HwAbort ==
    /\ op' = "Abort"
    /\ ret' = TRUE
    /\ IF TrackState = SCOPE_PARKED
       THEN UNCHANGED <<TrackState, rx, inflight>>
       ELSE /\ TrackState' = SCOPE_IDLE
            /\ rx' = MarkPreAbort(rx)
            /\ inflight' = MarkPreAbort(inflight)
    /\ NoPoll
    /\ request' = NoRequest
    /\ UNCHANGED <<EqN, IsParked, connected, OldGstat, unparkedNoPark,
                   RefractionModelTemperatureNP, RefractionModelPressureNP,
                   simVars, fmtVars>>

\* A reply the mount sent earlier reaches the receive buffer.
HwArrive ==
    /\ inflight # <<>>
    /\ rx' = Append(rx, Head(inflight))
    /\ inflight' = Tail(inflight)
    /\ op' = "Arrive"
    /\ ret' = TRUE
    /\ NoPoll
    /\ request' = NoRequest
    /\ UNCHANGED <<baseVars, connected, OldGstat, unparkedNoPark,
                   RefractionModelTemperatureNP, RefractionModelPressureNP,
                   simVars, fmtVars>>

\* The connection is made or dropped (isConnected()).
HwSetConnected ==
    /\ connected' = ~connected
    /\ op' = "SetConnected"
    /\ ret' = TRUE
    /\ NoPoll
    /\ request' = NoRequest
    /\ UNCHANGED <<baseVars, OldGstat, rx, inflight, unparkedNoPark,
                   RefractionModelTemperatureNP, RefractionModelPressureNP,
                   simVars, fmtVars>>

\* No command has been formatted yet.
CodecIdle == [kind |-> "none", tenths |-> 0, data |-> <<>>,
              parsed |-> [n |-> 0, neg |-> FALSE, m |-> 0, k |-> 0]]

\* The LX200_10MICRON fields after construction (initProperties gives both
\* refraction properties the value 0 and the state IPS_IDLE).
HwConstructed ==
    /\ connected = FALSE
    /\ OldGstat = "UNSET"
    /\ rx = <<>>
    /\ inflight = <<>>
    /\ pollInput = "none"
    /\ parsedStale = FALSE
    /\ parsedPreAbort = FALSE
    /\ exchange = [writes |-> 0, reads |-> 0]
    /\ pollReply = NoReply
    /\ recovered = FALSE
    /\ request = NoRequest
    /\ unparkedNoPark = FALSE
    /\ RefractionModelTemperatureNP = [value |-> 0, s |-> "IPS_IDLE"]
    /\ RefractionModelPressureNP = [value |-> 0, s |-> "IPS_IDLE"]

\* State after construction; the parked flag follows the persisted park
\* state.
HwInit ==
    /\ TrackState \in InitTrackStates
    /\ IsParked = (TrackState = SCOPE_PARKED)
    /\ EqN = <<0, 0>>
    /\ HwConstructed
    /\ codec = CodecIdle
    /\ op = "init"
    /\ ret = TRUE
    /\ reportMade = FALSE
    /\ currentRA = 0
    /\ currentDEC = 90 * Scale
    /\ targetRA = 0
    /\ targetDEC = 0
    /\ ltvSet = FALSE
    /\ Slewing = FALSE
    /\ Tracking = FALSE
    /\ GotoMode = "RADEC"
    /\ HorizontalCoords = [ra |-> 0, dec |-> 0, lng |-> 0]
    /\ dtLast = 0
    /\ abortedSlew = FALSE
    /\ commanded = <<0, 0>>
    /\ gotos = 0
    /\ LocationLng = Longitude

HwNext ==
    \/ HwReadScopeStatus
    \/ HwPark
    \/ HwUnPark
    \/ HwAbort
    \/ HwArrive
    \/ HwSetConnected

HwSpec == HwInit /\ [][HwNext]_vars

\* The poll and every command of the driver, configuration commands
\* included; a reply reaches the driver during the read of a poll or never.
HwCfgNext ==
    \/ HwReadScopeStatus
    \/ HwPark
    \/ HwUnPark
    \/ HwISNewNumber
    \/ HwSyncConfigBehaviour
    \/ HwSetConnected

HwCfgSpec == HwInit /\ [][HwCfgNext]_vars

----------------------------------------------------------------------------
(* LX200_10MICRON: the refraction commands as text, and the parser of the  *)
(* replies that carry the same quantities.  Values are in tenths.          *)

\* Refraction temperatures and pressures the properties admit
\* (initProperties: -999.9 .. 999.9 and 0.0 .. 9999.9), at both ends of the
\* ranges and around zero and the standard atmosphere.
TemperatureTenths == (-9999 .. -9990) \cup (-30 .. 30) \cup (9990 .. 9999)
PressureTenths    == (0 .. 30) \cup (10125 .. 10135) \cup (99990 .. 99999)

DigitChars == <<"0", "1", "2", "3", "4", "5", "6", "7", "8", "9">>

RECURSIVE Decimal(_)
\* The decimal digits of a natural number.
Decimal(n) ==
    IF n < 10 THEN <<DigitChars[n + 1]>>
    ELSE Append(Decimal(n \div 10), DigitChars[(n % 10) + 1])

RECURSIVE ZeroPad(_, _)
\* printf's 0 flag: zeros on the left up to the width.
ZeroPad(text, width) ==
    IF Len(text) >= width THEN text ELSE ZeroPad(<<"0">> \o text, width)

\* printf's %.1f of a value of so many tenths, without its sign.
OneDecimal(tenths) ==
    Decimal(Abs(tenths) \div 10) \o <<".", DigitChars[(Abs(tenths) % 10) + 1]>>

\* printf("%0+6.1f"): always a sign, zero-padded to six characters.
FormatTemperature(tenths) ==
    <<IF tenths < 0 THEN "-" ELSE "+">> \o ZeroPad(OneDecimal(tenths), 5)

\* printf("%06.1f"): a sign only when negative, zero-padded to six
\* characters.
FormatPressure(tenths) ==
    IF tenths < 0 THEN <<"-">> \o ZeroPad(OneDecimal(tenths), 5)
    ELSE ZeroPad(OneDecimal(tenths), 6)

\* snprintf(data, size, ...): at most size - 1 characters are stored, then
\* the terminating NUL.
Snprintf(size, text) ==
    IF Len(text) > size - 1 THEN SubSeq(text, 1, size - 1) ELSE text

\* char data[16] of SetRefractionModelTemperature after its snprintf.
TemperatureCommand(tenths) ==
    Snprintf(16, <<"#", ":", "S", "R", "T", "M", "P">>
                 \o FormatTemperature(tenths) \o <<"#">>)

\* char data[16] of SetRefractionModelPressure after its snprintf.
PressureCommand(tenths) ==
    Snprintf(16, <<"#", ":", "S", "R", "P", "R", "S">>
                 \o FormatPressure(tenths) \o <<"#">>)

DigitValue(c) == CHOOSE d \in 0 .. 9 : DigitChars[d + 1] = c
IsDigit(c) == \E d \in 0 .. 9 : DigitChars[d + 1] = c

RECURSIVE ScanDigits(_, _, _, _)
\* The digits of text from position i on: their value after acc, how many
\* there are after cnt, and the position of the first character that is not
\* a digit.
ScanDigits(text, i, acc, cnt) ==
    IF i <= Len(text) /\ IsDigit(text[i])
    THEN ScanDigits(text, i + 1, acc * 10 + DigitValue(text[i]), cnt + 1)
    ELSE [value |-> acc, count |-> cnt, next |-> i]

\* The decimal number at the start of text, as sscanf's %f reads it: an
\* optional sign, digits, an optional point and digits.  The number is
\* num / den, negative when neg; ok tells whether there was a number.
ScanDecimal(text) ==
    LET signed == Len(text) >= 1 /\ text[1] \in {"+", "-"}
        int    == ScanDigits(text, IF signed THEN 2 ELSE 1, 0, 0)
        point  == int.next <= Len(text) /\ text[int.next] = "."
        frac   == IF point THEN ScanDigits(text, int.next + 1, int.value, 0)
                  ELSE [value |-> int.value, count |-> 0, next |-> int.next]
    IN  [ok   |-> int.count + frac.count > 0,
         neg  |-> signed /\ text[1] = "-",
         num  |-> frac.value,
         den  |-> 10 ^ frac.count,
         next |-> frac.next]

RECURSIVE FloatExponent(_, _, _)
\* The largest k from k0 on with num * 2^k / den below 2^24: the number of
\* binary places a float keeps for num / den.
FloatExponent(num, den, k) ==
    IF num * (2 ^ (k + 1)) < den * (2 ^ 24)
    THEN FloatExponent(num, den, k + 1)
    ELSE k

\* The float nearest to num / den (round to nearest, ties to even), as the
\* pair m, k with value m / 2^k.
Float(num, den) ==
    IF num = 0 THEN [m |-> 0, k |-> 0]
    ELSE LET k == FloatExponent(num, den, 0)
             x == num * (2 ^ k)
             q == x \div den
             r == x % den
         IN  [m |-> IF 2 * r > den \/ (2 * r = den /\ q % 2 = 1)
                    THEN q + 1 ELSE q,
              k |-> k]

\* getBasicData: sscanf(reply, "%f#", &rmtemp) and the cast of the float to
\* the double the property holds.  n is the number of conversions; the
\* value is m / 2^k, negative when neg.
ScanFloatThenCast(text) ==
    LET d == ScanDecimal(text)
        f == Float(d.num, d.den)
    IN  [n |-> IF d.ok THEN 1 ELSE 0, neg |-> d.neg, m |-> f.m, k |-> f.k]

\* Whether a parsed value is the value of so many tenths.
SameValue(parsed, tenths) ==
    /\ parsed.n = 1
    /\ parsed.m * 10 = Abs(tenths) * (2 ^ parsed.k)
    /\ (tenths # 0) => (parsed.neg = (tenths < 0))

\* A temperature is formatted as SetRefractionModelTemperature does, and the
\* numeric field (what follows the seven characters of the command name) is
\* read back as getBasicData reads the reply to #:GRTMP#.
CodecTemperature ==
    /\ \E tenths \in TemperatureTenths :
          \E data \in {TemperatureCommand(tenths)} :
             codec' = [kind |-> "temperature", tenths |-> tenths, data |-> data,
                       parsed |-> ScanFloatThenCast(SubSeq(data, 8, Len(data)))]
    /\ UNCHANGED <<baseVars, simVars, hwVars, obsVars>>

\* The same for a pressure, SetRefractionModelPressure and #:GRPRS#.
CodecPressure ==
    /\ \E tenths \in PressureTenths :
          \E data \in {PressureCommand(tenths)} :
             codec' = [kind |-> "pressure", tenths |-> tenths, data |-> data,
                       parsed |-> ScanFloatThenCast(SubSeq(data, 8, Len(data)))]
    /\ UNCHANGED <<baseVars, simVars, hwVars, obsVars>>

CodecNext ==
    \/ CodecTemperature
    \/ CodecPressure

CodecSpec == HwInit /\ [][CodecNext]_vars

----------------------------------------------------------------------------
(* Specifications of the simulated mount                                   *)

\* The LX200_10MICRON fields, unused by the simulator.
HwIdle == HwConstructed /\ codec = CodecIdle

\* State after construction (AltAzMountSimulator.h:32-35), but for the
\* configured longitude.
SimConstructed ==
    /\ TrackState \in InitTrackStates
    /\ IsParked = (TrackState = SCOPE_PARKED)
    /\ EqN = <<0, 0>>
    /\ currentRA = 0
    /\ currentDEC = 90 * Scale
    /\ targetRA = 0
    /\ targetDEC = 0
    /\ ltvSet = FALSE
    /\ Slewing = FALSE
    /\ Tracking = FALSE
    /\ GotoMode = "RADEC"
    /\ HorizontalCoords = [ra |-> 0, dec |-> 0, lng |-> 0]
    /\ dtLast = 0
    /\ abortedSlew = FALSE
    /\ commanded = <<0, 0>>
    /\ gotos = 0
    /\ op = "init"
    /\ ret = TRUE
    /\ reportMade = FALSE
    /\ HwIdle

SimInit == SimConstructed /\ LocationLng = Longitude

SimNext ==
    \/ SimGoto
    \/ SimAbort
    \/ SimMoveNS
    \/ SimMoveWE
    \/ SimSetAltAzMode
    \/ SimReadScopeStatus
    \/ SimTimerHit

SimSpec == SimInit /\ [][SimNext]_vars

\* The timer is periodic: INDI::Telescope::TimerHit re-arms it on every tick.
SimLiveSpec == SimInit /\ [][SimNext]_vars /\ WF_vars(SimTimerHit)

\* The status report under every configured longitude, with the mount at
\* rest.
SimLocInit == SimConstructed /\ LocationLng \in Longitudes

SimLocNext ==
    \/ SimUpdateLocation
    \/ SimReadScopeStatus
    \/ SimTimerHit

SimLocSpec == SimLocInit /\ [][SimLocNext]_vars

----------------------------------------------------------------------------
(* Properties of the simulated mount                                       *)

\* C1: while Motion State is Parked, Goto is rejected: it returns failure
\* and leaves Motion State and target as they were.
C1_GotoRejectedWhileParked ==
    [][(op' = "Goto" /\ TrackState = SCOPE_PARKED)
          => (/\ ret' = FALSE
              /\ TrackState' = TrackState
              /\ targetRA' = targetRA
              /\ targetDEC' = targetDEC)]_vars

\* C2: Abort in a non-Parked state sets Motion State to Idle at once, and
\* after an Abort issued during a slew no tick changes current until the
\* next Goto.
C2_AbortStopsSlew ==
    [][/\ (op' = "Abort" /\ TrackState # SCOPE_PARKED)
              => TrackState' = SCOPE_IDLE
       /\ (op' = "TimerHit" /\ abortedSlew)
              => (currentRA' = currentRA /\ currentDEC' = currentDEC)]_vars

\* One axis comes closer to tgt in the step from cur to next: the remaining
\* distance does not grow, shrinks unless the axis was at tgt, and next is
\* not on the far side of tgt.
Approaches(cur, next, tgt) ==
    /\ Abs(tgt - next) <= Abs(tgt - cur)
    /\ (cur # tgt) => (Abs(tgt - next) < Abs(tgt - cur))
    /\ (tgt - cur) * (tgt - next) >= 0

\* C3: a slew converges.  Every tick of positive elapsed time taken while
\* Slewing brings each axis closer to target without passing it, and
\* Slewing leads to Tracking.
C3_SlewConverges ==
    /\ [][(op' = "TimerHit" /\ ltvSet /\ TrackState = SCOPE_SLEWING)
             => (/\ Approaches(currentRA, currentRA', targetRA)
                 /\ Approaches(currentDEC, currentDEC', targetDEC))]_vars
    /\ (TrackState = SCOPE_SLEWING) ~> (TrackState = SCOPE_TRACKING)

\* A slew from (0h, 90) has ended in Tracking at (2h, 75).
C3_Witness ==
    /\ op = "TimerHit"
    /\ TrackState = SCOPE_TRACKING
    /\ currentRA = 2 * Scale /\ targetRA = 2 * Scale
    /\ currentDEC = 75 * Scale /\ targetDEC = 75 * Scale

\* C9: target changes only by a Goto issued while Motion State is not
\* Parked; every other operation leaves it alone.
C9_TargetOnlyByGotoUnparked ==
    [][(targetRA' # targetRA \/ targetDEC' # targetDEC)
          => (op' = "Goto" /\ TrackState # SCOPE_PARKED)]_vars

\* C10: current changes only in the advance step of a tick; Goto, Abort,
\* MoveNS, MoveWE, the goto-mode switch and the status report leave it alone.
C10_CurrentOnlyByAdvance ==
    [][(currentRA' # currentRA \/ currentDEC' # currentDEC)
          => (op' = "TimerHit" /\ TrackState = SCOPE_SLEWING)]_vars

\* A Goto was issued in the middle of a slew: current is neither where the
\* mount started nor at the new target.
C10_Witness ==
    /\ op = "Goto"
    /\ currentDEC # 90 * Scale
    /\ <<currentRA, currentDEC>> # <<targetRA, targetDEC>>

\* C11: a Goto to the current position sets Slewing, and the very next tick,
\* whatever its elapsed time (zero included), sets Tracking and leaves
\* current where it is.
C11_GotoToCurrentTracksNextTick ==
    [][/\ (op' = "Goto") => (TrackState' = SCOPE_SLEWING)
       /\ (/\ op' = "TimerHit" /\ op = "Goto"
           /\ currentRA = targetRA /\ currentDEC = targetDEC)
              => (/\ TrackState' = SCOPE_TRACKING
                  /\ currentRA' = currentRA
                  /\ currentDEC' = currentDEC)]_vars

\* The first tick ever (elapsed time zero) followed a Goto to (0h, 90), where
\* the mount already was, and set Tracking.
C11_Witness ==
    /\ op = "TimerHit"
    /\ dtLast = 0
    /\ gotos = 1
    /\ TrackState = SCOPE_TRACKING
    /\ currentRA = 0 /\ targetRA = 0
    /\ currentDEC = 90 * Scale /\ targetDEC = 90 * Scale

\* C12: MoveNS and MoveWE return failure while Parked and success otherwise,
\* and leave Motion State, current and target as they were.
C12_JogRejectedOnlyWhileParked ==
    [][(op' \in {"MoveNS", "MoveWE"})
          => (/\ ret' = (TrackState # SCOPE_PARKED)
              /\ TrackState' = TrackState
              /\ currentRA' = currentRA /\ currentDEC' = currentDEC
              /\ targetRA' = targetRA /\ targetDEC' = targetDEC)]_vars

\* MoveWE was refused on a parked mount.
C12_Witness ==
    /\ op = "MoveWE"
    /\ ret = FALSE
    /\ TrackState = SCOPE_PARKED

\* C18: the longitude handed to the transform lies in (-180, 180] and differs
\* from the configured one by a multiple of 360 (so 200 and -160 give the
\* same input), a configured longitude of at most 180 is handed over as it
\* is, and the report does not modify the configured longitude.
C18_LongitudeNormalized ==
    [][(op' \in {"ReadScopeStatus", "TimerHit"})
          => (/\ HorizontalCoords'.lng > -180
              /\ HorizontalCoords'.lng <= 180
              /\ (HorizontalCoords'.lng - LocationLng) % 360 = 0
              /\ (LocationLng <= 180) => (HorizontalCoords'.lng = LocationLng)
              /\ (LocationLng > 180) => (HorizontalCoords'.lng = LocationLng - 360)
              /\ LocationLng' = LocationLng)]_vars

\* A report was made with the longitude configured as 200.
C18_Witness ==
    /\ op = "ReadScopeStatus"
    /\ LocationLng = 200
    /\ HorizontalCoords.lng = -160

\* C19: in every tick the advance comes before the report: at the end of the
\* tick the reported equatorial pair and the pair the horizontal coordinates
\* were derived from are current as the advance left it.
C19_ReportFollowsAdvance ==
    [][(op' = "TimerHit")
          => (/\ EqN' = <<currentRA', currentDEC'>>
              /\ HorizontalCoords'.ra = currentRA' * 15
              /\ HorizontalCoords'.dec = currentDEC')]_vars

\* C22: in a Slewing tick with elapsed time dt each axis on its own is set
\* to target when its distance in degrees (hours * 15 for RA) is at most
\* 3 * dt, and otherwise moves toward target by 3 * dt / 15 hours (RA) or
\* 3 * dt degrees (Dec); the first tick ever has dt = 0.
C22_PerAxisStepRule ==
    [][(op' = "TimerHit")
          => (/\ (~ltvSet) => (dtLast' = 0)
              /\ (TrackState = SCOPE_SLEWING)
                    => (/\ currentRA' =
                              IF Abs(targetRA - currentRA) * 15 <= 3 * dtLast' * Scale
                              THEN targetRA
                              ELSE IF targetRA > currentRA
                              THEN currentRA + (3 * dtLast' * Scale) \div 15
                              ELSE currentRA - (3 * dtLast' * Scale) \div 15
                        /\ currentDEC' =
                              IF Abs(targetDEC - currentDEC) <= 3 * dtLast' * Scale
                              THEN targetDEC
                              ELSE IF targetDEC > currentDEC
                              THEN currentDEC + 3 * dtLast' * Scale
                              ELSE currentDEC - 3 * dtLast' * Scale))]_vars

\* After a Goto to (7/15 h, 75) from (0h, 90) a tick of one second has set
\* RA to its target while Dec is three steps of 3 degrees on its way.
C22_Witness ==
    /\ op = "TimerHit"
    /\ dtLast = 1
    /\ gotos = 1
    /\ TrackState = SCOPE_SLEWING
    /\ targetRA = 7 /\ currentRA = 7
    /\ targetDEC = 75 * Scale /\ currentDEC = 81 * Scale

\* C23: a Slewing tick sets Tracking exactly when both axes are at target
\* at its end, and otherwise leaves Slewing.
C23_TrackingIffBothAtTarget ==
    [][(op' = "TimerHit" /\ TrackState = SCOPE_SLEWING)
          => (/\ (TrackState' = SCOPE_TRACKING)
                    <=> (currentRA' = targetRA' /\ currentDEC' = targetDEC')
              /\ (TrackState' # SCOPE_TRACKING) => (TrackState' = SCOPE_SLEWING))]_vars

\* Ticks of one second ended the slew to (7/15 h, 75): RA was at target
\* after three of them, Dec after five.
C23_Witness ==
    /\ op = "TimerHit"
    /\ dtLast = 1
    /\ gotos = 1
    /\ TrackState = SCOPE_TRACKING
    /\ Slewing
    /\ targetRA = 7 /\ currentRA = 7
    /\ targetDEC = 75 * Scale /\ currentDEC = 75 * Scale

\* C24: in Tracking current equals target on both axes, and a tick taken in
\* a state other than Slewing leaves current, target and Motion State as
\* they were.
C24_TrackingHoldsTarget ==
    /\ [](TrackState = SCOPE_TRACKING
             => (currentRA = targetRA /\ currentDEC = targetDEC))
    /\ [][(op' = "TimerHit" /\ TrackState # SCOPE_SLEWING)
             => (/\ currentRA' = currentRA /\ currentDEC' = currentDEC
                 /\ targetRA' = targetRA /\ targetDEC' = targetDEC
                 /\ TrackState' = TrackState)]_vars

\* A tick was taken in Tracking after the second slew.
C24_Witness ==
    /\ op = "TimerHit"
    /\ TrackState = SCOPE_TRACKING
    /\ Tracking
    /\ gotos = 2
    /\ currentRA = targetRA
    /\ currentDEC = targetDEC

\* C25: a Goto issued while Slewing replaces the target by the one it is
\* called with, keeps Slewing and leaves current where it is; and a tick
\* sets Tracking only with current at the target last commanded.
C25_GotoWhileSlewingRetargets ==
    [][/\ (op' = "Goto" /\ TrackState = SCOPE_SLEWING)
             => (/\ <<targetRA', targetDEC'>> = commanded'
                 /\ TrackState' = SCOPE_SLEWING
                 /\ currentRA' = currentRA /\ currentDEC' = currentDEC)
       /\ (op' = "TimerHit" /\ TrackState' = SCOPE_TRACKING)
             => (<<currentRA', currentDEC'>> = commanded')]_vars

\* A slew to (2h, 75) was interrupted at Dec 87 by a Goto to (0h, 86); the
\* mount has since tracked at (0h, 86), right ascension having turned back.
C25_Witness ==
    /\ op = "TimerHit"
    /\ gotos = 2
    /\ TrackState = SCOPE_TRACKING
    /\ commanded = <<0, 86 * Scale>>
    /\ currentRA = 0 /\ currentDEC = 86 * Scale
    /\ EqN[1] > 0

----------------------------------------------------------------------------
(* Properties of the hardware mount                                        *)

\* C4: a status poll that fails on the transport (not connected, write
\* error, read error, timeout, reply without '#') returns failure and leaves
\* Motion State, the parked flag and the reported RA/Dec as they were; the
\* coordinates are reported only by a poll that succeeds.
C4_TransportFailureKeepsState ==
    [][(op' = "ReadScopeStatus")
          => (/\ (pollInput' \in {"not_connected", "write_error", "read_error",
                                  "timeout", "no_terminator"})
                    => (/\ ret' = FALSE
                        /\ TrackState' = TrackState
                        /\ IsParked' = IsParked
                        /\ EqN' = EqN
                        /\ ~reportMade')
              /\ reportMade' => ret' = TRUE)]_vars

\* A poll timed out after an earlier poll had set the state, which stands.
C4_Witness ==
    /\ op = "ReadScopeStatus"
    /\ pollInput = "timeout"
    /\ ret = FALSE
    /\ TrackState = SCOPE_SLEWING
    /\ EqN = <<2, 10>>

\* C5: a terminated reply that is malformed in its fields (not 8 fields, or
\* a field that does not scan) makes the poll fail and leaves Motion State,
\* the parked flag and the reported RA/Dec as they were.
C5_MalformedReplyRejected ==
    [][(op' = "ReadScopeStatus" /\ pollInput' = "malformed")
          => (/\ ret' = FALSE
              /\ TrackState' = TrackState
              /\ IsParked' = IsParked
              /\ EqN' = EqN)]_vars

\* C6: a well-formed reply with an unknown status code makes the poll fail
\* and leaves Motion State, the parked flag, the remembered status code and
\* the reported RA/Dec as they were.
C6_UnknownStatusKeepsState ==
    [][(op' = "ReadScopeStatus" /\ pollInput' = "unknown_status")
          => (/\ ret' = FALSE
              /\ TrackState' = TrackState
              /\ IsParked' = IsParked
              /\ OldGstat' = OldGstat
              /\ EqN' = EqN)]_vars

\* A poll met an unknown status code after an earlier poll had put the mount
\* in Tracking.
C6_Witness ==
    /\ op = "ReadScopeStatus"
    /\ pollInput = "unknown_status"
    /\ ret = FALSE
    /\ TrackState = SCOPE_TRACKING
    /\ OldGstat = "GSTAT_FOLLOWING_SATELLITE"

\* C7: UnPark does not itself clear the parked flag, and once the flag has
\* been cleared no poll sets it again unless Park was issued in between.
C7_UnparkClearsOnConfirm ==
    [][/\ (op' = "UnPark") => (IsParked' = IsParked)
       /\ (op' = "ReadScopeStatus" /\ unparkedNoPark)
              => ~(~IsParked /\ IsParked')]_vars

\* C8: no poll parses the reply to an earlier request.
C8_NoStaleReplyParsed == ~parsedStale

\* The Motion State the specification gives each status code.
C13_MotionStateOf(g) ==
    CASE g = "GSTAT_TRACKING"                    -> SCOPE_TRACKING
      [] g = "GSTAT_UNPARKING"                   -> SCOPE_TRACKING
      [] g = "GSTAT_TRACKING_OUTSIDE_LIMITS"     -> SCOPE_TRACKING
      [] g = "GSTAT_FOLLOWING_SATELLITE"         -> SCOPE_TRACKING
      [] g = "GSTAT_STOPPED"                     -> SCOPE_IDLE
      [] g = "GSTAT_NOT_TRACKING_AND_NOT_MOVING" -> SCOPE_IDLE
      [] g = "GSTAT_MOTORS_TOO_COLD"             -> SCOPE_IDLE
      [] g = "GSTAT_NEED_USEROK"                 -> SCOPE_IDLE
      [] g = "GSTAT_UNKNOWN_STATUS"              -> SCOPE_IDLE
      [] g = "GSTAT_ERROR"                       -> SCOPE_IDLE
      [] g = "GSTAT_PARKING"                     -> SCOPE_PARKING
      [] g = "GSTAT_SLEWING_TO_HOME"             -> SCOPE_SLEWING
      [] g = "GSTAT_SLEWING_OR_STOPPING"         -> SCOPE_SLEWING
      [] g = "GSTAT_PARKED"                      -> SCOPE_PARKED
      [] OTHER                                   -> "none"

\* C13: a successful poll sets Motion State to the state the table gives the
\* status code it parsed, whatever the state before the poll was: the four
\* tracking codes give Tracking, the six stopped and fault codes Idle,
\* parking Parking, the two slewing codes Slewing, parked Parked.
C13_StatusCodeDeterminesState ==
    [][(op' = "ReadScopeStatus" /\ ret')
          => (/\ OldGstat' \in KnownGstat
              /\ TrackState' = C13_MotionStateOf(OldGstat'))]_vars

\* A poll read the unparking code while the mount was Parked and set
\* Tracking.
C13_Witness ==
    /\ op = "ReadScopeStatus"
    /\ ret
    /\ pollInput = "ok"
    /\ OldGstat = "GSTAT_UNPARKING"
    /\ TrackState = SCOPE_TRACKING
    /\ IsParked

\* C14: Motion State becomes Parked only in a successful poll whose status
\* code is parked; Park, UnPark, the configuration commands and failed polls
\* never set Parked; and after a poll that sets Parked the parked flag is
\* true.
C14_ParkedOnlyByParkedPoll ==
    [][/\ (TrackState # SCOPE_PARKED /\ TrackState' = SCOPE_PARKED)
             => (/\ op' = "ReadScopeStatus"
                 /\ ret'
                 /\ OldGstat' = "GSTAT_PARKED")
       /\ (op' = "ReadScopeStatus" /\ ret' /\ OldGstat' = "GSTAT_PARKED")
             => (TrackState' = SCOPE_PARKED /\ IsParked')]_vars

\* The mount was unparked, a configuration command was sent, and a poll that
\* read the parked code has set Parked and the parked flag.
C14_Witness ==
    /\ op = "ReadScopeStatus"
    /\ ret
    /\ OldGstat = "GSTAT_PARKED"
    /\ TrackState = SCOPE_PARKED
    /\ IsParked
    /\ unparkedNoPark
    /\ RefractionModelTemperatureNP.s = "IPS_OK"

\* C15: Park sends the park command and moves Motion State to Parking; when
\* the command cannot be written Park returns failure and Motion State is
\* unchanged.
C15_ParkMovesToParking ==
    [][(op' = "Park")
          => IF ret' THEN TrackState' = SCOPE_PARKING
                     ELSE TrackState' = TrackState]_vars

\* C16: a poll makes at most one write and at most one read; on a write
\* error, a read error or a timeout it returns failure having written once
\* and read at most once (not at all after a write error).
C16_OneExchangePerPoll ==
    [][(op' = "ReadScopeStatus")
          => (/\ exchange'.writes <= 1
              /\ exchange'.reads <= 1
              /\ (pollInput' \in {"write_error", "read_error", "timeout",
                                  "no_terminator"})
                    => (/\ ret' = FALSE
                        /\ exchange'.writes = 1
                        /\ exchange'.reads =
                              IF pollInput' = "write_error" THEN 0 ELSE 1))]_vars

\* A poll wrote its request, read once, met the timeout and returned
\* failure.
C16_Witness ==
    /\ op = "ReadScopeStatus"
    /\ pollInput = "timeout"
    /\ ret = FALSE
    /\ exchange = [writes |-> 1, reads |-> 1]

\* C20: once Abort has set Idle, a poll that parses a reply sent before the
\* Abort leaves Motion State Idle.
C20_AbortNotClobbered ==
    [][(op' = "ReadScopeStatus" /\ parsedPreAbort' /\ TrackState = SCOPE_IDLE)
          => (TrackState' = SCOPE_IDLE)]_vars

\* C17: the refraction temperature and pressure commands fit the 16-byte
\* buffer with their '#' in place, and the numeric field, read back by the
\* reply parser, is exactly the value that was formatted.
C17_RefractionRoundTripExact ==
    (codec.kind # "none")
        => (/\ Len(codec.data) + 1 <= 16
            /\ codec.data[Len(codec.data)] = "#"
            /\ SameValue(codec.parsed, codec.tenths))

\* C21: whatever came before, failed polls included, a poll that reads a
\* well-formed reply with a known status code succeeds, and Motion State,
\* the remembered status code and the reported RA/Dec are those of the
\* reply alone.
C21_NoLatchedError ==
    [][(op' = "ReadScopeStatus" /\ pollInput' = "ok")
          => (/\ ret'
              /\ reportMade'
              /\ TrackState' = C13_MotionStateOf(pollReply'.gstat)
              /\ OldGstat' = pollReply'.gstat
              /\ EqN' = <<pollReply'.ra, pollReply'.dec>>)]_vars

\* Right after a failed poll a poll read the reply to its own request,
\* slewing at RA 2, and succeeded.
C21_Witness ==
    /\ op = "ReadScopeStatus"
    /\ recovered
    /\ pollInput = "ok"
    /\ ~parsedStale
    /\ ret
    /\ TrackState = SCOPE_SLEWING
    /\ EqN = <<2, 10>>

\* C26: setting the refraction temperature or pressure stores the requested
\* value whether or not the command succeeds; on failure the handler returns
\* failure and the property state is alert, on success it returns success
\* and the state is ok.
C26_RefractionValueStoredFirst ==
    [][(op' = "ISNewNumber")
          => \E np \in {IF request'.name = "REFRACTION_MODEL_TEMPERATURE"
                       THEN RefractionModelTemperatureNP'
                       ELSE RefractionModelPressureNP'} :
                /\ request'.name \in {"REFRACTION_MODEL_TEMPERATURE",
                                      "REFRACTION_MODEL_PRESSURE"}
                /\ np.value = request'.value
                /\ np.s = IF ret' THEN "IPS_OK" ELSE "IPS_ALERT"]_vars

\* The temperature command failed: the handler returned failure, the state
\* is alert, and the stored value is the requested -10.5, not the 0.0 held
\* before.
C26_Witness ==
    /\ op = "ISNewNumber"
    /\ ret = FALSE
    /\ request = [name |-> "REFRACTION_MODEL_TEMPERATURE", value |-> -105]
    /\ RefractionModelTemperatureNP = [value |-> -105, s |-> "IPS_ALERT"]
    /\ RefractionModelPressureNP.value = 0

====
